---- MODULE Spec2Model ----
(***************************************************************************)
(* A model of mcp_utils: the argument-model synthesizer                    *)
(* (src/src/mcp_utils/utils.py, inspect_callable), the protocol message    *)
(* model (src/src/mcp_utils/schema.py, msgspec Structs) with its           *)
(* descriptor builders (from_callable), and the validation of raw          *)
(* arguments against a synthesized argument model.                         *)
(*                                                                         *)
(* Python values are tagged records so that values of different Python     *)
(* types can be compared: None, str, int/float, bool, dict, list, Struct.  *)
(***************************************************************************)
EXTENDS Integers, Sequences, FiniteSets, TLC

(***************************************************************************)
(* Python values                                                           *)
(***************************************************************************)
None == [k |-> "None"]
Str(s) == [k |-> "str", s |-> s]
Num(n) == [k |-> "num", n |-> n]
Bool(b) == [k |-> "bool", b |-> b]
\* a dict / JSON object: a function from its keys to their values
Dict(m) == [k |-> "dict", m |-> m]
\* a list / JSON array
List(l) == [k |-> "list", l |-> l]
\* an instance of a msgspec Struct class: a function from attribute names
Obj(c, f) == [k |-> "struct", cls |-> c, f |-> f]

\* inspect.Parameter.empty: the marker of a parameter without a default
Empty == [k |-> "Parameter.empty"]
\* dataclasses.MISSING / msgspec.NODEFAULT: a struct field without a default
MISSING == [k |-> "MISSING"]
\* typing.Any, the type of a parameter without a type hint
AnyType == "Any"

(***************************************************************************)
(* The callables handed to inspect_callable: their signature() parameters  *)
(* in declaration order, each with its type hint ("" when it has none) and *)
(* its default (Empty when it has none).  They are the callables of        *)
(* tests/test_utils.py (method_with_self taken unbound, so that self is a  *)
(* parameter), and func_nullable_required, which stands for                *)
(*     def func_nullable_required(name: str | None, age: int = 30)         *)
(***************************************************************************)
Param(n, h, d) == [name |-> n, hint |-> h, default |-> d]

Funcs ==
  { "func_no_args", "func_with_args", "func_with_default_args",
    "func_with_optional", "method_with_self", "func_nullable_required" }

\* The callables of the examples: examples/flask_app.py lines 39-41 and 59-60,
\* examples/python_session_flask.py lines 78-83
ExampleFuncs == { "get_weather", "get_weather_prompt", "execute_code" }

Parameters(f) ==
  CASE f = "func_no_args" -> << >>
    [] f = "func_with_args" ->
         << Param("name", "str", Empty), Param("age", "int", Empty) >>
    [] f = "func_with_default_args" ->
         << Param("name", "str", Empty), Param("age", "int", Num(30)) >>
    [] f = "func_with_optional" ->
         << Param("name", "str|None", None) >>
    [] f = "method_with_self" ->
         << Param("self", "", Empty), Param("name", "str", Empty) >>
    [] f = "func_nullable_required" ->
         << Param("name", "str|None", Empty), Param("age", "int", Num(30)) >>
    [] f = "get_weather" -> << Param("city", "str", Empty) >>
    [] f = "get_weather_prompt" -> << Param("city", "str", Empty) >>
    [] f = "execute_code" -> << Param("code", "str", Empty) >>

ReturnHint(f) ==
  CASE f = "func_no_args" -> "str"
    [] f = "func_with_args" -> "str"
    [] f = "func_with_default_args" -> "str"
    [] f = "func_with_optional" -> "str"
    [] f = "method_with_self" -> "str"
    [] f = "func_nullable_required" -> ""
    [] f = "get_weather" -> "str"
    [] f = "get_weather_prompt" -> "GetPromptResult"
    [] f = "execute_code" -> "CallToolResult"

\* callable.__doc__: the documentation string, None when the callable has
\* none (only its first line is kept here)
Doc(f) ==
  IF f = "execute_code" THEN Str("Execute Python code in a session.")
  ELSE None

\* The skip_names arguments tried: the keyword's default None, and lists.
NoSkip == None
SkipList(S) == [k |-> "list", items |-> S]
SkipChoices ==
  { NoSkip, SkipList({"self"}), SkipList({"age"}), SkipList({"name", "age"}) }

\* The number of inspect_callable invocations that exist at a time
NumCalls == 2
Calls == 1 .. NumCalls

NoResult == [k |-> "NoResult"]

VARIABLES
  pc,           \* per invocation: "idle", "loop" (lines 41-48), "done"
  func,         \* per invocation: the callable inspected
  skip_arg,     \* per invocation: the skip_names argument as passed
  skip_names,   \* per invocation: the local skip_names after line 33
  idx,          \* per invocation: position of the loop in sig.parameters
  annotations,  \* per invocation: the local dict annotations (ordered)
  namespace,    \* per invocation: the defaults put in namespace
  returned,     \* per invocation: the CallableMetadata returned
  value,        \* the message object built by the latest construction or
                \* decoding (NoValue when there is none or it was rejected)
  last          \* the latest operation on a message: what it was given, how
                \* it ended and what it returned

inspectVars ==
  << pc, func, skip_arg, skip_names, idx, annotations, namespace, returned >>
schemaVars == << value, last >>
vars == << inspectVars, schemaVars >>

(***************************************************************************)
(* inspect_callable, utils.py lines 19-54                                  *)
(***************************************************************************)
\* line 33: skip_names = skip_names or []
SkipNamesOrEmpty(s) == IF s = None THEN {} ELSE s.items

\* (a variant of Skipped that never skips: the skip list is ignored)
Skipped_ignored(name, skips) == FALSE

\* line 42: name in skip_names
Skipped(name, skips) == name \in skips

\* line 45: type_hints.get(name, Any)
TypeHint(param) == IF param.hint = "" THEN AnyType ELSE param.hint

\* line 53: type_hints.get("return", Any)
ReturnType(f) == IF ReturnHint(f) = "" THEN AnyType ELSE ReturnHint(f)

\* (a variant of NewAnnotations that keeps using the dict of the earlier call)
NewAnnotations_reused(prev) == prev

\* line 38: annotations = {}: a dict of its own for every call, whatever
\* dict an earlier call left behind (prev)
NewAnnotations(prev) == << >>

\* (a variant of NewNamespace that keeps using the dict of the earlier call)
NewNamespace_reused(prev) == prev

\* line 39: namespace = {"__annotations__": annotations}: no default yet
NewNamespace(prev) == [n \in {} |-> None]

\* line 46: annotations[name] = param_type (a dict keeps insertion order,
\* and assigning an existing key keeps its place)
DictSet(d, key, val) ==
  IF \E i \in 1 .. Len(d) : d[i].key = key
    THEN [i \in 1 .. Len(d) |->
            IF d[i].key = key THEN [key |-> key, val |-> val] ELSE d[i]]
    ELSE Append(d, [key |-> key, val |-> val])

\* (a variant of NamespaceAfter that gives a nullable parameter without a
\* default the default None)
NamespaceAfter_nullable(ns, param) ==
  IF param.default # Empty \/ param.hint = "str|None"
    THEN [n \in DOMAIN ns \cup {param.name} |->
            IF n = param.name
              THEN (IF param.default # Empty THEN param.default ELSE None)
              ELSE ns[n]]
    ELSE ns

\* lines 47-48: if param.default is not Parameter.empty:
\*                  namespace[name] = param.default
NamespaceAfter(ns, param) ==
  IF param.default # Empty
    THEN [n \in DOMAIN ns \cup {param.name} |->
            IF n = param.name THEN param.default ELSE ns[n]]
    ELSE ns

\* line 50: type(f"{func.__name__}Args", (msgspec.Struct,), namespace):
\* one struct field per annotation, in the order of the annotations; a
\* field is required unless the namespace gives it a default
StructType(f, anns, ns) ==
  [ k |-> "type",
    name |-> f,
    fields |-> [i \in 1 .. Len(anns) |->
      [ name |-> anns[i].key,
        type |-> anns[i].val,
        required |-> anns[i].key \notin DOMAIN ns,
        default |-> IF anns[i].key \in DOMAIN ns THEN ns[anns[i].key]
                    ELSE MISSING ]] ]

\* lines 52-54: CallableMetadata(arg_model=..., return_type=...)
CallableMetadata(f, anns, ns) ==
  [ arg_model |-> StructType(f, anns, ns), return_type |-> ReturnType(f) ]

InspectInit ==
  /\ pc = [i \in Calls |-> "idle"]
  /\ func = [i \in Calls |-> "func_no_args"]
  /\ skip_arg = [i \in Calls |-> NoSkip]
  /\ skip_names = [i \in Calls |-> {}]
  /\ idx = [i \in Calls |-> 1]
  /\ annotations = [i \in Calls |-> << >>]
  /\ namespace = [i \in Calls |-> [n \in {} |-> None]]
  /\ returned = [i \in Calls |-> NoResult]

\* lines 19-39: the call is entered and its locals are set up
Call(i, f, s) ==
  /\ pc[i] \in {"idle", "done"}
  /\ pc' = [pc EXCEPT ![i] = "loop"]
  /\ func' = [func EXCEPT ![i] = f]
  /\ skip_arg' = [skip_arg EXCEPT ![i] = s]
  /\ skip_names' = [skip_names EXCEPT ![i] = SkipNamesOrEmpty(s)]
  /\ idx' = [idx EXCEPT ![i] = 1]
  /\ annotations' = [annotations EXCEPT ![i] = NewAnnotations(annotations[i])]
  /\ namespace' = [namespace EXCEPT ![i] = NewNamespace(namespace[i])]
  /\ returned' = [returned EXCEPT ![i] = NoResult]
  /\ UNCHANGED schemaVars

\* lines 41-48: one iteration of the loop over sig.parameters
LoopStep(i) ==
  /\ pc[i] = "loop"
  /\ idx[i] <= Len(Parameters(func[i]))
  /\ LET param == Parameters(func[i])[idx[i]] IN
       IF Skipped(param.name, skip_names[i])
         THEN UNCHANGED << annotations, namespace >>
         ELSE /\ annotations' = [annotations EXCEPT ![i] =
                   DictSet(annotations[i], param.name, TypeHint(param))]
              /\ namespace' = [namespace EXCEPT ![i] =
                   NamespaceAfter(namespace[i], param)]
  /\ idx' = [idx EXCEPT ![i] = idx[i] + 1]
  /\ UNCHANGED << pc, func, skip_arg, skip_names, returned >>
  /\ UNCHANGED schemaVars

\* lines 50-54: the struct type is built and the metadata returned
Return(i) ==
  /\ pc[i] = "loop"
  /\ idx[i] > Len(Parameters(func[i]))
  /\ returned' = [returned EXCEPT ![i] =
       CallableMetadata(func[i], annotations[i], namespace[i])]
  /\ pc' = [pc EXCEPT ![i] = "done"]
  /\ UNCHANGED << func, skip_arg, skip_names, idx, annotations, namespace >>
  /\ UNCHANGED schemaVars

(***************************************************************************)
(* The message model, schema.py: msgspec Struct classes.  A class is the   *)
(* sequence of its fields in declaration order; a field has its attribute  *)
(* name, the name field(name=...) gives it on the wire ("" when it has     *)
(* none), its declared type and its default (MISSING when it is required). *)
(* The classes are taken as declared: what msgspec checks when a class is  *)
(* defined (the order of required and optional fields, the keywords of     *)
(* field) is not modelled.                                                 *)
(***************************************************************************)
Field(n, r, t, d) ==
  [name |-> n, rename |-> r, type |-> t, default |-> d, omit |-> FALSE]
\* field(default=..., omit=True): a field that is kept out of encodings
FieldOmit(n, r, t, d) ==
  [name |-> n, rename |-> r, type |-> t, default |-> d, omit |-> TRUE]

TStr == [k |-> "str"]
TInt == [k |-> "int"]
TBool == [k |-> "bool"]
TAny == [k |-> "Any"]
TDict == [k |-> "dict"]
TRole == [k |-> "Role"]
TOpt(t) == [k |-> "opt", of |-> t]
TList(t) == [k |-> "listof", of |-> t]
TLit(s) == [k |-> "Literal", s |-> s]
TStruct(c) == [k |-> "structof", cls |-> c]
TUnion(cs) == [k |-> "union", of |-> cs]
TFloat(lo, hi) == [k |-> "float", ge |-> lo, le |-> hi]
TIdent == [k |-> "str|int"]
\* the builtin type: the type of a value that is a class
TType == [k |-> "type"]

\* schema.py line 16-21
Role == { "user", "assistant", "system" }

\* schema.py line 28: Meta(ge=0, le=1).  Priorities are modelled by whole
\* numbers: 0 and 1 are the two ends of the interval, -1 and 2 lie outside.
PriorityGe == 0
PriorityLe == 1

\* schema.py lines 24-28
Annotations ==
  << Field("audience", "", TOpt(TList(TRole)), None),
     Field("priority", "", TOpt(TFloat(PriorityGe, PriorityLe)), None) >>

\* schema.py lines 37-42
BlobResourceContents ==
  << Field("blob", "", TStr, MISSING),
     Field("mime_type", "mimeType", TOpt(TStr), None),
     Field("uri", "", TStr, MISSING) >>

\* schema.py lines 51-55
TextContent ==
  << Field("text", "", TStr, MISSING),
     Field("type", "", TStr, Str("text")) >>

\* schema.py lines 58-62
ImageContent ==
  << Field("image", "", TStruct("BlobResourceContents"), MISSING),
     Field("type", "", TStr, Str("image")) >>

\* schema.py lines 65-69
EmbeddedResource ==
  << Field("resource", "", TStruct("BlobResourceContents"), MISSING),
     Field("type", "", TStr, Str("embedded-resource")) >>

ContentClasses == { "TextContent", "ImageContent", "EmbeddedResource" }

\* schema.py lines 79-84
CallToolResult ==
  << Field("_meta", "", TOpt(TDict), None),
     Field("content", "", TList(TUnion(ContentClasses)), MISSING),
     Field("is_error", "isError", TBool, Bool(FALSE)) >>

\* schema.py lines 120-125
CompletionValues ==
  << Field("has_more", "hasMore", TOpt(TBool), None),
     Field("total", "", TOpt(TInt), None),
     Field("values", "", TList(TStr), MISSING) >>

\* schema.py lines 178-184
ResourceInfo ==
  << Field("uri", "", TStr, MISSING),
     Field("name", "", TStr, MISSING),
     Field("description", "", TStr, Str("")),
     Field("mime_type", "", TOpt(TStr), None) >>

\* schema.py lines 442-447
ErrorResponse ==
  << Field("code", "", TOpt(TInt), None),
     Field("message", "", TOpt(TStr), None),
     Field("data", "", TOpt(TAny), None) >>

\* schema.py lines 450-456
MCPResponse ==
  << Field("jsonrpc", "", TLit("2.0"), Str("2.0")),
     Field("id", "", TOpt(TIdent), None),
     Field("result", "", TOpt(TAny), None),
     Field("error", "", TOpt(TStruct("ErrorResponse")), None) >>

\* schema.py lines 469-475
MCPRequest ==
  << Field("jsonrpc", "", TLit("2.0"), Str("2.0")),
     Field("id", "", TOpt(TIdent), None),
     Field("method", "", TStr, MISSING),
     Field("params", "", TOpt(TDict), None) >>

\* schema.py lines 254-263
PromptInfo ==
  << Field("id", "", TStr, MISSING),
     Field("name", "", TStr, MISSING),
     Field("description", "", TOpt(TStr), None),
     Field("arguments", "", TList(TDict), MISSING) >>

\* schema.py lines 322-331
ToolInfo ==
  << Field("name", "", TStr, MISSING),
     Field("description", "", TOpt(TStr), None),
     Field("inputSchema", "", TDict, MISSING),
     FieldOmit("arg_model", "", TOpt(TType), None) >>

\* The classes whose constructor and decoder are given inputs of their own
Classes ==
  { "Annotations", "BlobResourceContents", "TextContent", "ImageContent",
    "EmbeddedResource", "CallToolResult", "CompletionValues", "ResourceInfo",
    "ErrorResponse", "MCPResponse", "MCPRequest" }

StructFields(c) ==
  CASE c = "Annotations" -> Annotations
    [] c = "BlobResourceContents" -> BlobResourceContents
    [] c = "TextContent" -> TextContent
    [] c = "ImageContent" -> ImageContent
    [] c = "EmbeddedResource" -> EmbeddedResource
    [] c = "CallToolResult" -> CallToolResult
    [] c = "CompletionValues" -> CompletionValues
    [] c = "ResourceInfo" -> ResourceInfo
    [] c = "ErrorResponse" -> ErrorResponse
    [] c = "MCPResponse" -> MCPResponse
    [] c = "MCPRequest" -> MCPRequest
    [] c = "PromptInfo" -> PromptInfo
    [] c = "ToolInfo" -> ToolInfo

AttrNames(c) == { StructFields(c)[i].name : i \in 1 .. Len(StructFields(c)) }
FieldOf(c, a) ==
  StructFields(c)[CHOOSE i \in 1 .. Len(StructFields(c)) :
                    StructFields(c)[i].name = a]

\* (a variant of EncodedName that ignores field(name=...))
EncodedName_internal(fld) == fld.name

\* field(..., name="mimeType"): the name of a field in encoded messages
EncodedName(fld) == IF fld.rename = "" THEN fld.name ELSE fld.rename

\* The exceptions msgspec raises
TypeError == [k |-> "TypeError"]
ValidationError == [k |-> "ValidationError"]

(***************************************************************************)
(* Struct.__init__ with keywords kw: they are attribute names; a keyword   *)
(* that is no field, and a required field without a keyword, raise         *)
(* TypeError; the values are stored as given, neither types nor            *)
(* constraints are checked.                                                *)
(***************************************************************************)
StructNew(c, kw) ==
  IF \E x \in DOMAIN kw : x \notin AttrNames(c)
    THEN TypeError
  ELSE IF \E a \in AttrNames(c) :
            FieldOf(c, a).default = MISSING /\ a \notin DOMAIN kw
    THEN TypeError
  ELSE Obj(c, [a \in AttrNames(c) |->
                 IF a \in DOMAIN kw THEN kw[a] ELSE FieldOf(c, a).default])

(***************************************************************************)
(* Decoding a raw JSON value into a declared type (msgspec.json.decode /   *)
(* msgspec.convert with type=...): the value is checked against the type,  *)
(* constraints included; an object is matched to a Struct by the encoded   *)
(* names of its fields, keys that name no field are ignored, a required    *)
(* field that is absent is a ValidationError.                              *)
(***************************************************************************)
RECURSIVE DecodeValue(_, _)
RECURSIVE DecodeStruct(_, _)

DecodeStruct(c, m) ==
  LET dec(a) ==
        LET fld == FieldOf(c, a) IN
          IF EncodedName(fld) \in DOMAIN m
            THEN DecodeValue(fld.type, m[EncodedName(fld)])
          ELSE IF fld.default = MISSING THEN ValidationError
          ELSE fld.default
  IN  IF \E a \in AttrNames(c) : dec(a) = ValidationError
        THEN ValidationError
        ELSE Obj(c, [a \in AttrNames(c) |-> dec(a)])

DecodeValue(t, v) ==
  CASE t.k = "Any" -> v
    [] t.k = "str" -> IF v.k = "str" THEN v ELSE ValidationError
    [] t.k = "int" -> IF v.k = "num" THEN v ELSE ValidationError
    [] t.k = "bool" -> IF v.k = "bool" THEN v ELSE ValidationError
    [] t.k = "dict" -> IF v.k = "dict" THEN v ELSE ValidationError
    [] t.k = "Role" ->
         IF v.k = "str" /\ v.s \in Role THEN v ELSE ValidationError
    [] t.k = "str|int" ->
         IF v.k \in {"str", "num"} THEN v ELSE ValidationError
    [] t.k = "Literal" -> IF v = Str(t.s) THEN v ELSE ValidationError
    [] t.k = "float" ->
         IF v.k = "num" /\ t.ge <= v.n /\ v.n <= t.le
           THEN v ELSE ValidationError
    [] t.k = "opt" -> IF v = None THEN None ELSE DecodeValue(t.of, v)
    [] t.k = "listof" ->
         IF v.k # "list" THEN ValidationError
         ELSE LET d == [i \in 1 .. Len(v.l) |-> DecodeValue(t.of, v.l[i])]
              IN  IF \E i \in 1 .. Len(v.l) : d[i] = ValidationError
                    THEN ValidationError ELSE List(d)
    [] t.k = "structof" ->
         IF v.k = "dict" THEN DecodeStruct(t.cls, v.m) ELSE ValidationError
    \* TextContent | ImageContent | EmbeddedResource: none of the classes
    \* declares a tag, so no item can be matched to one of them
    [] t.k = "union" -> ValidationError
    \* no JSON value is a class
    [] t.k = "type" -> ValidationError

(***************************************************************************)
(* Encoding (msgspec.json.encode): a Struct becomes an object keyed by the *)
(* encoded names of its fields.  With skip_defaults=True (compact) a field *)
(* whose value equals its declared default is left out; a field declared   *)
(* with omit=True is always left out.                                      *)
(***************************************************************************)
Emitted(fld, val, compact) ==
  /\ ~fld.omit
  /\ ~(compact /\ fld.default # MISSING /\ val = fld.default)

RECURSIVE EncodeValue(_, _)
EncodeValue(v, compact) ==
  CASE v.k = "struct" ->
         LET out == { a \in AttrNames(v.cls) :
                        Emitted(FieldOf(v.cls, a), v.f[a], compact) }
             attr(w) == CHOOSE a \in out : EncodedName(FieldOf(v.cls, a)) = w
         IN  Dict([w \in { EncodedName(FieldOf(v.cls, a)) : a \in out } |->
                     EncodeValue(v.f[attr(w)], compact)])
    [] v.k = "list" ->
         List([i \in 1 .. Len(v.l) |-> EncodeValue(v.l[i], compact)])
    [] v.k = "dict" ->
         Dict([x \in DOMAIN v.m |-> EncodeValue(v.m[x], compact)])
    [] OTHER -> v

\* (a variant of is_error that also wants the result to be empty)
is_error_without_result(self) == self.f.error # None /\ self.f.result = None

\* schema.py lines 458-460: MCPResponse.is_error
is_error(self) == self.f.error # None

(***************************************************************************)
(* The inputs tried on the message model: keyword sets for construction,   *)
(* raw JSON objects for decoding, and attribute assignments.  An option    *)
(* table gives, per key, the values tried; Absent leaves the key out.      *)
(***************************************************************************)
Absent == [k |-> "absent"]
Combos(opts) ==
  LET keys == DOMAIN opts
      all == { f \in [keys -> UNION { opts[x] : x \in keys }] :
                 \A x \in keys : f[x] \in opts[x] }
  IN  { [x \in { y \in keys : f[y] # Absent } |-> f[x]] : f \in all }

\* tests/test_schema.py lines 82-87, 310-314
BlobKw ==
  ("blob" :> Str("SGVsbG8=")) @@ ("mime_type" :> Str("image/png"))
    @@ ("uri" :> Str("https://example.com/image"))
BlobObj == StructNew("BlobResourceContents", BlobKw)
BlobRaw ==
  Dict(("blob" :> Str("SGVsbG8=")) @@ ("mimeType" :> Str("image/png"))
         @@ ("uri" :> Str("https://example.com/image")))
\* tests/test_schema.py lines 77, 308
TextObj == StructNew("TextContent", "text" :> Str("Hello"))
TextRaw == Dict(("text" :> Str("Hello")) @@ ("type" :> Str("text")))
\* tests/test_schema.py lines 141-149
ErrorKw == ("code" :> Num(100)) @@ ("message" :> Str("Test error"))
ErrorObj == StructNew("ErrorResponse", ErrorKw)
ErrorRaw == Dict(ErrorKw)
\* tests/test_schema.py line 132
ResultRaw == Dict("key" :> Str("value"))
\* tests/test_schema.py lines 322-325, examples/python_session_flask.py line 86
ToolResultObj ==
  StructNew("CallToolResult",
            ("content" :> List(<< TextObj >>)) @@ ("is_error" :> Bool(FALSE)))

\* The keywords tried on each class's constructor
InitOptions(c) ==
  CASE c = "Annotations" ->
         ("audience" :> { Absent, List(<< Str("user"), Str("assistant") >>) })
           @@ ("priority" :> { Absent, None, Num(0 - 1), Num(0), Num(1), Num(2) })
    [] c = "BlobResourceContents" ->
         ("blob" :> { Str("SGVsbG8=") })
           @@ ("mime_type" :> { Absent, Str("image/png") })
           @@ ("mimeType" :> { Absent, Str("text/plain") })
           @@ ("uri" :> { Absent, Str("https://example.com/image") })
    [] c = "TextContent" ->
         ("text" :> { Absent, Str("Hello") })
           @@ ("type" :> { Absent, Str("text"), Str("image"), Str("video") })
           @@ ("image" :> { Absent, BlobObj })
    [] c = "ImageContent" ->
         ("image" :> { Absent, BlobObj })
           @@ ("type" :> { Absent, Str("image"), Str("text") })
           @@ ("text" :> { Absent, Str("Hello") })
    [] c = "EmbeddedResource" ->
         ("resource" :> { Absent, BlobObj })
           @@ ("type" :> { Absent, Str("embedded-resource"), Str("text") })
    [] c = "CallToolResult" ->
         ("content" :> { Absent, List(<< >>), List(<< TextObj >>),
                         List(<< TextObj,
                                 StructNew("ImageContent", "image" :> BlobObj) >>) })
           @@ ("is_error" :> { Absent, Bool(FALSE), Bool(TRUE) })
           @@ ("isError" :> { Absent, Bool(TRUE) })
    [] c = "CompletionValues" ->
         ("values" :> { List(<< Str("London") >>) })
           @@ ("has_more" :> { Absent, Bool(TRUE) })
           @@ ("hasMore" :> { Absent, Bool(TRUE) })
    [] c = "ResourceInfo" ->
         ("uri" :> { Str("https://example.com/resource") })
           @@ ("name" :> { Str("Test Resource") })
           @@ ("mime_type" :> { Absent, Str("text/plain") })
           @@ ("mimeType" :> { Absent, Str("image/png") })
    [] c = "ErrorResponse" ->
         ("code" :> { Absent, Num(100) })
           @@ ("message" :> { Absent, Str("Test error") })
    [] c = "MCPResponse" ->
         ("jsonrpc" :> { Absent, Str("2.0"), Str("1.0") })
           @@ ("id" :> { Absent, Str("1") })
           @@ ("result" :> { Absent, ResultRaw })
           @@ ("error" :> { Absent, ErrorObj })
           @@ ("extra" :> { Absent, Str("field") })
    [] c = "MCPRequest" ->
         ("jsonrpc" :> { Absent, Str("2.0"), Str("1.0") })
           @@ ("id" :> { Absent, Str("1") })
           @@ ("method" :> { Absent, Str("test_method") })
           @@ ("extra" :> { Absent, Str("field") })

\* The raw JSON objects tried on each class's decoder
RawOptions(c) ==
  CASE c = "Annotations" ->
         ("audience" :> { Absent, List(<< Str("user"), Str("assistant") >>) })
           @@ ("priority" :> { Absent, None, Num(0 - 1), Num(0), Num(1), Num(2) })
    [] c = "BlobResourceContents" ->
         ("blob" :> { Str("SGVsbG8=") })
           @@ ("mime_type" :> { Absent, Str("text/plain") })
           @@ ("mimeType" :> { Absent, Str("image/png") })
           @@ ("uri" :> { Absent, Str("https://example.com/image") })
    [] c = "TextContent" ->
         ("text" :> { Absent, Str("Hello") })
           @@ ("type" :> { Absent, Str("text"), Str("image"), Str("video") })
           @@ ("image" :> { Absent, BlobRaw })
    [] c = "ImageContent" ->
         ("image" :> { Absent, BlobRaw })
           @@ ("type" :> { Absent, Str("image"), Str("text") })
           @@ ("text" :> { Absent, Str("Hello") })
    [] c = "EmbeddedResource" ->
         ("resource" :> { Absent, BlobRaw })
           @@ ("type" :> { Absent, Str("embedded-resource"), Str("text") })
    [] c = "CallToolResult" ->
         ("content" :> { Absent, List(<< >>), List(<< TextRaw >>) })
           @@ ("is_error" :> { Absent, Bool(TRUE) })
           @@ ("isError" :> { Absent, Bool(FALSE), Bool(TRUE) })
    [] c = "CompletionValues" ->
         ("values" :> { List(<< Str("London") >>) })
           @@ ("has_more" :> { Absent, Bool(TRUE) })
           @@ ("hasMore" :> { Absent, Bool(TRUE) })
    [] c = "ResourceInfo" ->
         ("uri" :> { Str("https://example.com/resource") })
           @@ ("name" :> { Str("Test Resource") })
           @@ ("mime_type" :> { Absent, Str("text/plain") })
           @@ ("mimeType" :> { Absent, Str("image/png") })
    [] c = "ErrorResponse" ->
         ("code" :> { Absent, Num(100) })
           @@ ("message" :> { Absent, Str("Test error") })
    [] c = "MCPResponse" ->
         ("jsonrpc" :> { Absent, Str("2.0"), Str("1.0") })
           @@ ("id" :> { Absent, Str("1") })
           @@ ("result" :> { Absent, ResultRaw })
           @@ ("error" :> { Absent, ErrorRaw })
           @@ ("extra" :> { Absent, Str("field") })
    [] c = "MCPRequest" ->
         ("jsonrpc" :> { Absent, Str("2.0"), Str("1.0") })
           @@ ("id" :> { Absent, Str("1") })
           @@ ("method" :> { Absent, Str("test_method") })
           @@ ("extra" :> { Absent, Str("field") })

InitInputs == [c \in Classes |-> Combos(InitOptions(c))]
RawInputs == [c \in Classes |-> Combos(RawOptions(c))]

\* The attribute assignments tried on an object of each class
AttrChoices(c) ==
  CASE c = "MCPResponse" ->
         { << "result", None >>, << "result", ResultRaw >>,
           << "result", ToolResultObj >>,
           << "error", None >>, << "error", ErrorObj >> }
    [] c = "Annotations" -> { << "priority", Num(2) >>, << "priority", Num(1) >> }
    [] c \in ContentClasses -> { << "type", Str("text") >>, << "type", Str("image") >> }
    [] OTHER -> {}

NoValue == [k |-> "NoValue"]
Op(o, c, a, st, r) == [op |-> o, cls |-> c, arg |-> a, status |-> st, ret |-> r]

SchemaInit ==
  /\ value = NoValue
  /\ last = Op("none", "", None, "ok", None)

Init == InspectInit /\ SchemaInit

\* cls(**kw): e.g. tests/test_schema.py lines 44, 63, 134, 161
StructInit(c, kw) ==
  LET obj == StructNew(c, kw) IN
    /\ value' = IF obj = TypeError THEN NoValue ELSE obj
    /\ last' = Op("init", c, Dict(kw),
                  IF obj = TypeError THEN "TypeError" ELSE "ok", None)
    /\ UNCHANGED inspectVars

\* obj.attr = val on a Struct (not frozen): tests/test_schema.py line 325
SetAttr(a, val) ==
  /\ value # NoValue
  /\ << a, val >> \in AttrChoices(value.cls)
  /\ a \in AttrNames(value.cls)
  /\ value' = Obj(value.cls, [value.f EXCEPT ![a] = val])
  /\ last' = Op("setattr", value.cls, Dict(a :> val), "ok", None)
  /\ UNCHANGED inspectVars

\* decoding a raw JSON object as class c
JsonDecode(c, raw) ==
  LET obj == DecodeStruct(c, raw) IN
    /\ value' = IF obj = ValidationError THEN NoValue ELSE obj
    /\ last' = Op("decode", c, Dict(raw),
                  IF obj = ValidationError THEN "ValidationError" ELSE "ok",
                  None)
    /\ UNCHANGED inspectVars

\* msgspec.json.encode(obj) and msgspec.json.encode(obj, skip_defaults=True):
\* tests/test_schema.py lines 49, 69, 156, 328
JsonEncode(compact) ==
  /\ value # NoValue
  /\ last' = Op("encode", value.cls, Bool(compact), "ok",
                EncodeValue(value, compact))
  /\ UNCHANGED << value, inspectVars >>

\* response.is_error(): tests/test_schema.py lines 138, 151
CallIsError ==
  /\ value # NoValue
  /\ value.cls = "MCPResponse"
  /\ last' = Op("is_error", value.cls, None, "ok", Bool(is_error(value)))
  /\ UNCHANGED << value, inspectVars >>

\* decoding the encoding of the object at hand as its own class:
\* msgspec.json.decode(msgspec.json.encode(x), type=type(x))
RoundTrip ==
  /\ value # NoValue
  /\ LET dec == DecodeStruct(value.cls, EncodeValue(value, FALSE).m) IN
       last' = Op("roundtrip", value.cls, value,
                  IF dec = ValidationError THEN "ValidationError" ELSE "ok",
                  dec)
  /\ UNCHANGED << value, inspectVars >>

SchemaNext ==
  \/ \E c \in Classes : \E kw \in InitInputs[c] : StructInit(c, kw)
  \/ \E c \in Classes : \E raw \in RawInputs[c] : JsonDecode(c, raw)
  \/ \E ch \in UNION { AttrChoices(c) : c \in Classes } : SetAttr(ch[1], ch[2])
  \/ \E compact \in BOOLEAN : JsonEncode(compact)
  \/ CallIsError
  \/ RoundTrip

SpecSchema == Init /\ [][SchemaNext]_vars

InspectNext ==
  \/ \E i \in Calls, f \in Funcs, s \in SkipChoices : Call(i, f, s)
  \/ \E i \in Calls : LoopStep(i)
  \/ \E i \in Calls : Return(i)

SpecInspect == Init /\ [][InspectNext]_vars

(***************************************************************************)
(* The descriptor builders of schema.py: ToolInfo.from_callable and        *)
(* PromptInfo.from_callable.  Each calls inspect_callable(callable) with   *)
(* no skip_names and builds the descriptor from what it returned: the      *)
(* builder's step below is what follows the return of that call.           *)
(***************************************************************************)
\* schema.py lines 282, 339: callable.__doc__ or ""
DocOrEmpty(f) == IF Doc(f) = None \/ Doc(f) = Str("") THEN Str("") ELSE Doc(f)

\* schema.py line 340: inputSchema={}
EmptyInputSchema == Dict([x \in {} |-> None])

\* What a class attribute lookup on a msgspec Struct class finds under the
\* name of a field: every field is a slot of the class, so the lookup finds
\* the slot's member descriptor whether or not the field has a default (the
\* defaults are taken out of the class namespace when the class is built)
MemberDescriptor(model, name) ==
  [k |-> "member_descriptor", cls |-> model.name, name |-> name]

\* schema.py line 273: getattr(metadata.arg_model, field_name, MISSING)
ClassGetattr(model, name, dflt) ==
  IF \E j \in 1 .. Len(model.fields) : model.fields[j].name = name
    THEN MemberDescriptor(model, name)
    ELSE dflt

\* schema.py lines 269-280: one entry per name of arg_model.__annotations__
PromptArguments(model) ==
  [j \in 1 .. Len(model.fields) |->
     Dict(("name" :> Str(model.fields[j].name))
            @@ ("description" :> Str(""))
            @@ ("required" :>
                  Bool(ClassGetattr(model, model.fields[j].name, MISSING)
                         = MISSING)))]

\* The name a callable is registered under: its own name or another one
RegistrationNames(f) == { f, "renamed" }

\* schema.py lines 334-342: ToolInfo.from_callable(callable, name)
ToolInfoFromCallable(i, name) ==
  /\ pc[i] = "done"
  /\ skip_arg[i] = NoSkip
  /\ name \in RegistrationNames(func[i])
  /\ value' = StructNew("ToolInfo",
                 ("name" :> Str(name))
                   @@ ("description" :> DocOrEmpty(func[i]))
                   @@ ("inputSchema" :> EmptyInputSchema)
                   @@ ("arg_model" :> returned[i].arg_model))
  /\ last' = Op("ToolInfo.from_callable", "ToolInfo",
                Dict(("callable" :> Str(func[i])) @@ ("name" :> Str(name))),
                "ok", None)
  /\ UNCHANGED inspectVars

\* schema.py lines 265-283: PromptInfo.from_callable(callable, name)
PromptInfoFromCallable(i, name) ==
  /\ pc[i] = "done"
  /\ skip_arg[i] = NoSkip
  /\ name \in RegistrationNames(func[i])
  /\ value' = StructNew("PromptInfo",
                 ("id" :> Str(name))
                   @@ ("name" :> Str(name))
                   @@ ("description" :> DocOrEmpty(func[i]))
                   @@ ("arguments" :>
                         List(PromptArguments(returned[i].arg_model))))
  /\ last' = Op("PromptInfo.from_callable", "PromptInfo",
                Dict(("callable" :> Str(func[i])) @@ ("name" :> Str(name))),
                "ok", None)
  /\ UNCHANGED inspectVars

\* The builders run one at a time here: invocation 1 of inspect_callable is
\* the one they make
DescriptorNext ==
  \/ \E f \in Funcs \cup ExampleFuncs : Call(1, f, NoSkip)
  \/ LoopStep(1)
  \/ Return(1)
  \/ \E f \in Funcs \cup ExampleFuncs : \E name \in RegistrationNames(f) :
       ToolInfoFromCallable(1, name)
  \/ \E f \in Funcs \cup ExampleFuncs : \E name \in RegistrationNames(f) :
       PromptInfoFromCallable(1, name)
  \/ RoundTrip

SpecDescriptor == Init /\ [][DescriptorNext]_vars

(***************************************************************************)
(* Validation of a raw arguments object against the struct type            *)
(* inspect_callable returned, as done when a call is routed to a tool      *)
(* (mcp_utils/core.py): every key must name a field, every required field  *)
(* must be present, every present value must be compatible with the        *)
(* declared type of its field; the result gives every field the supplied   *)
(* value or its default.                                                   *)
(***************************************************************************)
\* is the JSON value v compatible with the declared type
TypeCompatible(type, v) ==
  CASE type = "str" -> v.k = "str"
    [] type = "int" -> v.k = "num"
    [] type = "str|None" -> v.k \in { "str", "None" }
    [] OTHER -> TRUE

\* The two failures of validation, each with the names of the fields at fault
UnexpectedArgument(names) == [k |-> "UnexpectedArgument", names |-> names]
ArgumentsInvalid(names) == [k |-> "ValidationError", names |-> names]

ValidateArguments(model, raw) ==
  LET flds == model.fields
      names == { flds[j].name : j \in 1 .. Len(flds) }
      fld(n) == flds[CHOOSE j \in 1 .. Len(flds) : flds[j].name = n]
      unknown == DOMAIN raw \ names
      missing == { n \in names \ DOMAIN raw : fld(n).required }
      illtyped == { n \in names \cap DOMAIN raw :
                      ~TypeCompatible(fld(n).type, raw[n]) }
  IN  IF unknown # {} THEN UnexpectedArgument(unknown)
      ELSE IF missing \cup illtyped # {}
        THEN ArgumentsInvalid(missing \cup illtyped)
      ELSE Dict([n \in names |->
                   IF n \in DOMAIN raw THEN raw[n] ELSE fld(n).default])

\* The raw arguments objects tried, among them {"name": "Ann"}, {"age": 5}
\* and {"name": "Ann", "extra": 1}
RawArguments ==
  Combos(("name" :> { Absent, Str("Ann"), Num(5) })
           @@ ("age" :> { Absent, Num(5) })
           @@ ("extra" :> { Absent, Num(1) })
           @@ ("self" :> { Absent, Str("me") }))

\* what a validation was given: the struct type, the skip_names of the
\* inspect_callable call that built it, and the raw object
Validation(model, skips, raw) ==
  [k |-> "validation", model |-> model, skips |-> skips, raw |-> raw]

\* raw is validated against the struct type invocation i returned
Validate(i, raw) ==
  /\ pc[i] = "done"
  /\ LET res == ValidateArguments(returned[i].arg_model, raw) IN
       last' = Op("validate", func[i],
                  Validation(returned[i].arg_model, skip_names[i], raw),
                  IF res.k = "dict" THEN "ok" ELSE res.k, res)
  /\ UNCHANGED << value, inspectVars >>

\* One inspect_callable invocation and the validations against its result
ValidateNext ==
  \/ \E f \in Funcs, s \in SkipChoices : Call(1, f, s)
  \/ LoopStep(1)
  \/ Return(1)
  \/ \E raw \in RawArguments : Validate(1, raw)

SpecValidate == Init /\ [][ValidateNext]_vars

(***************************************************************************)
(* Properties of inspect_callable                                          *)
(***************************************************************************)
Fields(i) == returned[i].arg_model.fields
FieldNames(i) == [j \in 1 .. Len(Fields(i)) |-> Fields(i)[j].name]
ParamNames(f) == [j \in 1 .. Len(Parameters(f)) |-> Parameters(f)[j].name]
Range(seq) == { seq[j] : j \in 1 .. Len(seq) }

\* C1: in the schema a finished inspect_callable call returned, a field is
\* optional exactly when its parameter has a default value, the default
\* recorded is that value, and a parameter without a default is required
\* with no default recorded, whether or not its type is nullable.
C1_DefaultsPropagate ==
  \A i \in Calls : pc[i] = "done" =>
    \A j \in 1 .. Len(Fields(i)) :
      \A p \in 1 .. Len(Parameters(func[i])) :
        LET param == Parameters(func[i])[p]
            fld == Fields(i)[j]
        IN  param.name = fld.name =>
              /\ (~fld.required) <=> (param.default # Empty)
              /\ param.default # Empty => fld.default = param.default
              /\ param.default = Empty => fld.default = MISSING

\* C1 witness: a finished call on f(name: str | None, age: int = 30) that
\* kept both parameters: name is required without a default, age is
\* optional with the default 30.
C1_Witness ==
  \E i \in Calls :
    /\ pc[i] = "done"
    /\ func[i] = "func_nullable_required"
    /\ Len(Fields(i)) = 2
    /\ Fields(i)[1].type = "str|None" /\ Fields(i)[1].required
    /\ Fields(i)[1].default = MISSING
    /\ ~Fields(i)[2].required /\ Fields(i)[2].default = Num(30)

\* C2: the field names of the schema a finished call returned are exactly
\* the parameter names of the callable that are not in the skip set.
C2_SkipExact ==
  \A i \in Calls : pc[i] = "done" =>
    Range(FieldNames(i)) =
      Range(ParamNames(func[i])) \ SkipNamesOrEmpty(skip_arg[i])

\* C2 witness: f(self, name: str) inspected with skip ["self"] has the one
\* field name, and a call whose skip list names none of its parameters
\* kept them all.
C2_Witness ==
  /\ \E i \in Calls :
       /\ pc[i] = "done" /\ func[i] = "method_with_self"
       /\ skip_arg[i] = SkipList({"self"})
       /\ FieldNames(i) = << "name" >> /\ Fields(i)[1].required
  /\ \E i \in Calls :
       /\ pc[i] = "done" /\ func[i] = "func_with_args"
       /\ skip_arg[i] = SkipList({"self"})
       /\ FieldNames(i) = << "name", "age" >>

\* C3: two finished calls on the same callable with the same skip set
\* returned the same schema (names, order, required flags, defaults), and
\* the fields are in the declaration order of the retained parameters.
C3_Deterministic ==
  /\ \A i, j \in Calls :
       ( /\ pc[i] = "done" /\ pc[j] = "done"
         /\ func[i] = func[j] /\ skip_names[i] = skip_names[j] )
       => returned[i] = returned[j]
  /\ \A i \in Calls : pc[i] = "done" =>
       FieldNames(i) =
         SelectSeq(ParamNames(func[i]), LAMBDA n : n \notin skip_names[i])

\* C3 witness: two calls on f(name: str, age: int = 30) with the same skip
\* list have both returned, each a schema of two fields.
C3_Witness ==
  \E i, j \in Calls :
    /\ i # j /\ pc[i] = "done" /\ pc[j] = "done"
    /\ func[i] = "func_with_default_args" /\ func[j] = func[i]
    /\ skip_arg[i] = SkipList({"self"}) /\ skip_arg[j] = skip_arg[i]
    /\ Len(Fields(i)) = 2 /\ Len(Fields(j)) = 2

(***************************************************************************)
(* Properties of the message model                                         *)
(***************************************************************************)
Built == last.op \in {"init", "decode"}
IsA(c) == value # NoValue /\ value.cls = c

\* C4 (as claimed): an MCPResponse never has both result and error
\* populated, neither as built nor after attribute assignments.
C4_ResultErrorExclusive ==
  IsA("MCPResponse") => ~(value.f.result # None /\ value.f.error # None)

\* C5: whenever is_error() has just been called on an MCPResponse, it
\* returned true exactly when the error field of that response is not
\* None, whatever its result field holds.
C5_IsErrorIffError ==
  last.op = "is_error" => last.ret = Bool(value.f.error # None)

\* C5 witness: is_error() returned true on a response whose result and
\* error are both populated.
C5_Witness ==
  /\ last.op = "is_error" /\ last.ret = Bool(TRUE)
  /\ value.f.result # None /\ value.f.error # None

\* The tag each content class stands for (spec section 6)
ContentTag(c) ==
  CASE c = "TextContent" -> Str("text")
    [] c = "ImageContent" -> Str("image")
    [] c = "EmbeddedResource" -> Str("embedded-resource")

\* C6 (as claimed): every content value that was constructed or decoded
\* carries the type tag of its own variant, and an input whose tag is none
\* of text, image, embedded-resource is rejected.
C6_TagAgreesWithVariant ==
  /\ (Built /\ value # NoValue /\ value.cls \in ContentClasses)
       => value.f.type = ContentTag(value.cls)
  /\ ( /\ Built /\ last.cls \in ContentClasses
       /\ "type" \in DOMAIN last.arg.m
       /\ last.arg.m["type"] \notin { ContentTag(c) : c \in ContentClasses } )
       => last.status # "ok"

\* C7 (as claimed): every encoding of a content value has the key type, in
\* strict and in compact mode, and a CallToolResult nested in an
\* MCPResponse is encoded with isError and with the type of each item.
C7_TagAlwaysEncoded ==
  /\ (last.op = "encode" /\ last.cls \in ContentClasses)
       => "type" \in DOMAIN last.ret.m
  /\ ( /\ last.op = "encode" /\ last.cls = "MCPResponse"
       /\ value.f.result.k = "struct"
       /\ value.f.result.cls = "CallToolResult" )
       => /\ "result" \in DOMAIN last.ret.m
          /\ "isError" \in DOMAIN last.ret.m["result"].m
          /\ \A i \in 1 .. Len(last.ret.m["result"].m["content"].l) :
               "type" \in DOMAIN last.ret.m["result"].m["content"].l[i].m

\* C8 (as claimed): an Annotations value that was constructed or decoded
\* has no priority or one within [0, 1]; a priority outside is rejected by
\* both, and the priorities 0 and 1 are accepted as given.
C8_PriorityInRange ==
  /\ (Built /\ IsA("Annotations"))
       => ( \/ value.f.priority = None
            \/ (0 <= value.f.priority.n /\ value.f.priority.n <= 1) )
  /\ ( /\ Built /\ last.cls = "Annotations"
       /\ "priority" \in DOMAIN last.arg.m
       /\ last.arg.m["priority"] \in { Num(0), Num(1) } )
       => (last.status = "ok" /\ value.f.priority = last.arg.m["priority"])

\* The alias table of spec section 6: class, internal name, wire name
AliasTable ==
  { << "BlobResourceContents", "mime_type", "mimeType" >>,
    << "CallToolResult", "is_error", "isError" >>,
    << "CompletionValues", "has_more", "hasMore" >> }

\* C9: an encoding of a class with an aliased field never has the internal
\* name as a key and carries the field under its wire name whenever the
\* field is emitted; a successful decoding takes the field from the wire
\* name alone (a key spelled as the internal name never fills it); and
\* ResourceInfo.mime_type is encoded as mime_type.
C9_AliasFidelity ==
  /\ \A al \in AliasTable :
       /\ (last.op = "encode" /\ last.cls = al[1]) =>
            /\ al[2] \notin DOMAIN last.ret.m
            /\ Emitted(FieldOf(al[1], al[2]), value.f[al[2]], last.arg.b)
                 => ( /\ al[3] \in DOMAIN last.ret.m
                      /\ last.ret.m[al[3]] = value.f[al[2]] )
       /\ (last.op = "decode" /\ last.cls = al[1] /\ last.status = "ok") =>
            value.f[al[2]] =
              IF al[3] \in DOMAIN last.arg.m THEN last.arg.m[al[3]]
              ELSE FieldOf(al[1], al[2]).default
  /\ (last.op = "encode" /\ last.cls = "ResourceInfo" /\ ~last.arg.b) =>
       ( /\ "mime_type" \in DOMAIN last.ret.m
         /\ "mimeType" \notin DOMAIN last.ret.m
         /\ last.ret.m["mime_type"] = value.f.mime_type )

\* C9 witness: a BlobResourceContents with mime_type "image/png" has been
\* encoded, and the encoding has it under mimeType.
C9_Witness ==
  /\ last.op = "encode" /\ last.cls = "BlobResourceContents"
  /\ value.f.mime_type = Str("image/png")
  /\ "mimeType" \in DOMAIN last.ret.m
  /\ last.ret.m["mimeType"] = Str("image/png")

\* C9 witness for decoding: a raw object with both spellings was decoded,
\* and mime_type holds the value that came under mimeType.
C9_DecodeWitness ==
  /\ last.op = "decode" /\ last.cls = "BlobResourceContents"
  /\ last.status = "ok"
  /\ "mime_type" \in DOMAIN last.arg.m /\ "mimeType" \in DOMAIN last.arg.m
  /\ value.f.mime_type = Str("image/png")

Envelopes == { "MCPRequest", "MCPResponse" }

\* C10 (as claimed): constructing or decoding an envelope from an input
\* with a top-level key that is no declared field is rejected.
C10_ExtraFieldsRejected ==
  ( /\ Built /\ last.cls \in Envelopes
    /\ \E x \in DOMAIN last.arg.m : x \notin AttrNames(last.cls) )
  => last.status # "ok"

(***************************************************************************)
(* Properties of the descriptor builders                                   *)
(***************************************************************************)
\* C11: the descriptor ToolInfo.from_callable returns has the registration
\* name as its name, the callable's documentation string (the empty string
\* when it has none) as its description, and an inputSchema whose "required"
\* list names every parameter of the callable that has no default.
C11_InputSchemaRequires ==
  last.op = "ToolInfo.from_callable" =>
    LET f == last.arg.m["callable"].s
        schema == value.f["inputSchema"].m
    IN  /\ value.f["name"] = last.arg.m["name"]
        /\ value.f["description"] = DocOrEmpty(f)
        /\ \A j \in 1 .. Len(Parameters(f)) :
              Parameters(f)[j].default = Empty =>
                /\ "required" \in DOMAIN schema
                /\ Str(Parameters(f)[j].name) \in Range(schema["required"].l)

\* C12: the arguments list PromptInfo.from_callable returns has one entry
\* {name, description, required} per parameter of the callable, in
\* declaration order, and an entry's required is true exactly when its
\* parameter has no default value.
C12_PromptArgumentsRequired ==
  last.op = "PromptInfo.from_callable" =>
    LET params == Parameters(last.arg.m["callable"].s)
        args == value.f["arguments"].l
    IN  /\ Len(args) = Len(params)
        /\ \A j \in 1 .. Len(args) :
              /\ DOMAIN args[j].m = { "name", "description", "required" }
              /\ args[j].m["name"] = Str(params[j].name)
              /\ args[j].m["required"] = Bool(params[j].default = Empty)

(***************************************************************************)
(* Properties of the validation of arguments                               *)
(***************************************************************************)
\* the fields the schema of a validation has by the signature: the
\* parameters of the callable in order, without the skipped ones
SchemaParams(f, skips) ==
  SelectSeq(Parameters(f), LAMBDA p : p.name \notin skips)
Validated == last.op = "validate"
RawOf == last.arg.raw
ParamsOf == SchemaParams(last.cls, last.arg.skips)
ParamNamesOf == { ParamsOf[j].name : j \in 1 .. Len(ParamsOf) }
ParamOf(n) == ParamsOf[CHOOSE j \in 1 .. Len(ParamsOf) : ParamsOf[j].name = n]
RequiredOf == { n \in ParamNamesOf : ParamOf(n).default = Empty }
IllTypedOf ==
  { n \in ParamNamesOf \cap DOMAIN RawOf :
      ~TypeCompatible(TypeHint(ParamOf(n)), RawOf[n]) }

C14_MissingWitness ==
  /\ Validated
  /\ last.cls = "func_with_default_args"
  /\ last.arg.skips = {}
  /\ RawOf = ("age" :> Num(5))
  /\ last.ret = ArgumentsInvalid({ "name" })

(***************************************************************************)
(* Properties of encoding and decoding                                     *)
(***************************************************************************)
\* a validly constructed value: an object whose attributes all hold values
\* of their declared types
RECURSIVE Conforms(_, _)
ValidObj(v) ==
  \A a \in AttrNames(v.cls) : Conforms(FieldOf(v.cls, a).type, v.f[a])
Conforms(t, v) ==
  CASE t.k = "Any" -> TRUE
    [] t.k = "str" -> v.k = "str"
    [] t.k = "int" -> v.k = "num"
    [] t.k = "bool" -> v.k = "bool"
    [] t.k = "dict" -> v.k = "dict"
    [] t.k = "type" -> v.k = "type"
    [] t.k = "Role" -> v.k = "str" /\ v.s \in Role
    [] t.k = "str|int" -> v.k \in { "str", "num" }
    [] t.k = "Literal" -> v = Str(t.s)
    [] t.k = "float" -> v.k = "num" /\ t.ge <= v.n /\ v.n <= t.le
    [] t.k = "opt" -> v = None \/ Conforms(t.of, v)
    [] t.k = "listof" ->
         v.k = "list" /\ \A i \in 1 .. Len(v.l) : Conforms(t.of, v.l[i])
    [] t.k = "structof" -> v.k = "struct" /\ v.cls = t.cls /\ ValidObj(v)
    [] t.k = "union" -> v.k = "struct" /\ v.cls \in t.of /\ ValidObj(v)

\* C15: decoding the encoding of a validly constructed value x, of any
\* message class, gives a value equal to x; so it does for a ToolInfo built
\* by from_callable, whose arg_model is left out of the encoding.
C15_RoundTrip ==
  (last.op = "roundtrip" /\ ValidObj(last.arg)) => last.ret = last.arg

\* C16: every MCPRequest and MCPResponse object has jsonrpc "2.0": a
\* construction or a decoding that is given another jsonrpc value is
\* rejected and leaves no object.
C16_JsonrpcIsProtocolVersion ==
  /\ \A c \in Envelopes : IsA(c) => value.f["jsonrpc"] = Str("2.0")
  /\ (/\ Built
      /\ last.cls \in Envelopes
      /\ "jsonrpc" \in DOMAIN last.arg.m
      /\ last.arg.m["jsonrpc"] # Str("2.0")) => last.status # "ok"

(***************************************************************************)
(* Properties of concurrent inspect_callable invocations                   *)
(***************************************************************************)
\* What an invocation run alone has in annotations and in namespace after
\* the first n parameters of f, and what it returns
RECURSIVE AloneAnnotations(_, _, _)
AloneAnnotations(f, skips, n) ==
  IF n = 0 THEN << >>
  ELSE LET prev == AloneAnnotations(f, skips, n - 1)
           param == Parameters(f)[n]
       IN  IF param.name \in skips THEN prev
           ELSE DictSet(prev, param.name, TypeHint(param))
RECURSIVE AloneNamespace(_, _, _)
AloneNamespace(f, skips, n) ==
  IF n = 0 THEN [x \in {} |-> None]
  ELSE LET prev == AloneNamespace(f, skips, n - 1)
           param == Parameters(f)[n]
       IN  IF param.name \in skips \/ param.default = Empty THEN prev
           ELSE [x \in DOMAIN prev \cup { param.name } |->
                   IF x = param.name THEN param.default ELSE prev[x]]
Alone(f, s) ==
  LET skips == IF s = NoSkip THEN {} ELSE s.items
      n == Len(Parameters(f))
  IN  [ arg_model |->
          StructType(f, AloneAnnotations(f, skips, n),
                     AloneNamespace(f, skips, n)),
        return_type |-> ReturnType(f) ]

\* C17: however the steps of the invocations interleave, every invocation
\* has at every point of its loop the annotations and the namespace it
\* would have when run alone, and returns the schema it would return alone:
\* the callable, the skip list and the progress of the other invocations
\* change nothing in it.
C17_InterleavingIndependent ==
  \A i \in Calls :
    /\ pc[i] = "loop" =>
          /\ annotations[i] =
                AloneAnnotations(func[i], skip_names[i], idx[i] - 1)
          /\ namespace[i] =
                AloneNamespace(func[i], skip_names[i], idx[i] - 1)
    /\ pc[i] = "done" => returned[i] = Alone(func[i], skip_arg[i])

\* C17 (witness): two invocations over method_with_self, one skipping self
\* and one skipping nothing, are both in flight with their loops finished,
\* each with annotations of its own.
C17_Witness ==
  \E i, j \in Calls :
    /\ i # j
    /\ pc[i] = "loop" /\ pc[j] = "loop"
    /\ func[i] = "method_with_self" /\ func[j] = "method_with_self"
    /\ skip_arg[i] = SkipList({ "self" }) /\ skip_arg[j] = NoSkip
    /\ idx[i] = 3 /\ idx[j] = 3
    /\ Len(annotations[i]) = 1 /\ Len(annotations[j]) = 2

====
